---- MODULE Spec2Model ----
(***************************************************************************)
(* Speech AI Platform: the session of one signed-in user on the page       *)
(* (Index, AudioRecorder, ConversationHistory), the tables it writes       *)
(* (conversations, messages, model_performance) and the speech-to-speech   *)
(* edge function.                                                          *)
(*                                                                         *)
(* Every await of the code is a point where other handlers may run, so     *)
(* each handler is cut at its awaits: one action per synchronous segment.  *)
(* A task is one press of Record followed through getUserMedia, the        *)
(* MediaRecorder, processAudio and handleTranscriptionReceived.            *)
(***************************************************************************)
EXTENDS Integers, Sequences, FiniteSets, TLC

\* ------------------------------------------------------------- bounds
MaxRecordings == 2      \* presses of Record in one run
InitConversations == 2  \* conversations the owner already has at sign-in
MaxLatency == 2         \* measured latencies are 1..MaxLatency
MaxLang == 2            \* languages of the selector the user picks among
MaxDeletes == 1         \* deleteConversation calls in flight at one time
MaxSoloRecordings == 1  \* presses of Record in the runs that follow one exchange
MaxRecords == 3         \* rows of model_performance the statistics are computed from
MaxForeign == 2         \* conversations another account holds at one time
MaxInstants == 5        \* instants after which another account creates nothing more

\* ---------------------------------------------------------- constants
NoId == 0               \* null / undefined conversation id
Me == "me"              \* auth.uid() of the session
Other == "other"        \* another account
ModelNames == {"moshi", "ultravox", "spirit_lm"}
LanguageList == <<"en", "ta", "es", "fr", "de">>
Languages == {LanguageList[i] : i \in 1..Len(LanguageList)}
SelectableLanguages ==
    {LanguageList[i] : i \in 1..(IF MaxLang < Len(LanguageList) THEN MaxLang ELSE Len(LanguageList))}
Latencies == 1..MaxLatency
\* Math.random() * 2 + 3 lies in [3, 5); one representative value
MockScores == {4}

VARIABLES
    \* persistence (tables of the migration)
    dbConversations,        \* set of rows of public.conversations
    dbMessages,             \* set of rows of public.messages
    dbPerformance,          \* sequence of rows of public.model_performance
    clock,                  \* now() / next generated id
    \* Index state
    selectedModel, selectedLanguage, currentConversationId, messages, modelStats,
    captured,               \* props and state closed over by the memoized startRecording
    \* AudioRecorder state
    isRecording, isProcessing, mediaRecorderRef,
    tasks,                  \* one record per press of Record
    \* ConversationHistory state
    conversations,          \* the listed conversations (ids, newest first)
    listFetch,              \* fetchConversations in flight
    \* requests in flight
    statsFetches,           \* number of fetchModelStats in flight
    msgFetches,             \* conversation ids with a fetchMessages in flight
    deletes,                \* deleteConversation calls in flight
    lastOp,                 \* the handler segment that ran last
    lastExchange,           \* the task whose exchange was recorded last, 0 for none
    gw                      \* one request to the edge function, followed end to end

vars == <<dbConversations, dbMessages, dbPerformance, clock,
          selectedModel, selectedLanguage, currentConversationId, messages, modelStats,
          captured, isRecording, isProcessing, mediaRecorderRef, tasks,
          conversations, listFetch, statsFetches, msgFetches, deletes,
          lastOp, lastExchange, gw>>

dbVars == <<dbConversations, dbMessages, dbPerformance, clock>>
indexVars == <<selectedModel, selectedLanguage, currentConversationId, messages, modelStats>>
recorderVars == <<isRecording, isProcessing, mediaRecorderRef, tasks>>
historyVars == <<conversations, listFetch>>

\* ------------------------------------------------------------ helpers
RECURSIVE SortByCreated(_)
\* ORDER BY created_at ASC over a set of rows
SortByCreated(rows) ==
    IF rows = {} THEN <<>>
    ELSE LET first == CHOOSE r \in rows : \A q \in rows : r.created_at <= q.created_at
         IN <<first>> \o SortByCreated(rows \ {first})

Reverse(s) == [i \in 1..Len(s) |-> s[Len(s) + 1 - i]]

RECURSIVE Gcd(_, _)
Gcd(a, b) == IF b = 0 THEN a ELSE Gcd(b, a % b)

\* an exact fraction in lowest terms, <<numerator, denominator>>
Frac(n, d) == LET g == Gcd(n, d) IN IF g = 0 THEN <<0, 1>> ELSE <<n \div g, d \div g>>

\* ------------------------------------------------- persistence boundary
\* a table without the SELECT policy
RlsConversations_Everyone(uid) == dbConversations

\* row-level security: SELECT on conversations
RlsConversations(uid) == {c \in dbConversations : c.user_id = uid}

OwnsConversation(uid, convId) ==
    \E c \in dbConversations : c.id = convId /\ c.user_id = uid

\* INSERT on conversations: WITH CHECK (auth.uid() = user_id) and the model CHECK
CanInsertConversation(uid, row) ==
    row.user_id = uid /\ row.model_used \in ModelNames

\* INSERT on messages: the conversation exists and belongs to the caller
CanInsertMessage(uid, convId) == OwnsConversation(uid, convId)

\* INSERT on model_performance: owner, model CHECK, score CHECKs
CanInsertPerformance(uid, row) ==
    /\ row.user_id = uid
    /\ row.model_name \in ModelNames
    /\ row.quality_score >= 0 /\ row.quality_score <= 5
    /\ row.expressivity_score >= 0 /\ row.expressivity_score <= 5

\* SELECT * FROM messages WHERE conversation_id = id ORDER BY created_at ASC
SelectMessages(uid, convId) ==
    SortByCreated({m \in dbMessages :
                      m.conversation_id = convId /\ OwnsConversation(uid, convId)})

\* SELECT ... FROM conversations ORDER BY created_at DESC, ids only
SelectConversations(uid) ==
    LET sorted == Reverse(SortByCreated(RlsConversations(uid)))
    IN [i \in 1..Len(sorted) |-> sorted[i].id]

\* SELECT * FROM model_performance WHERE user_id = uid
SelectPerformance(uid) == SelectSeq(dbPerformance, LAMBDA r : r.user_id = uid)

\* DELETE FROM conversations WHERE id = convId, under the DELETE policy
ConversationsAfterDelete(uid, convId) ==
    {c \in dbConversations : ~(c.id = convId /\ c.user_id = uid)}

\* ON DELETE CASCADE of messages.conversation_id
MessagesAfterDelete(uid, convId) ==
    {m \in dbMessages : ~(m.conversation_id = convId /\ OwnsConversation(uid, convId))}

\* ------------------------------------------------------ fetchModelStats
NullScore == -1         \* a NULL quality_score / expressivity_score

\* record.quality_score || 0
OrZero(x) == IF x = NullScore THEN 0 ELSE x

\* an update that forgets the weight of the records already counted
NextMean_Unweighted(avg, count, value) ==
    Frac(avg[1] + value * avg[2], avg[2] * 2)

\* (avg * usage_count + value) / (usage_count + 1), on exact fractions
NextMean(avg, count, value) ==
    Frac(avg[1] * count + value * avg[2], avg[2] * (count + 1))

\* the else branch: statsMap.set(record.model_name, {...})
NewStatsEntry(record) ==
    [model_name |-> record.model_name,
     avg_latency |-> Frac(record.latency_ms, 1),
     avg_quality |-> Frac(OrZero(record.quality_score), 1),
     avg_expressivity |-> Frac(OrZero(record.expressivity_score), 1),
     usage_count |-> 1]

\* the if (existing) branch
UpdateStatsEntry(existing, record) ==
    [model_name |-> existing.model_name,
     avg_latency |-> NextMean(existing.avg_latency, existing.usage_count, record.latency_ms),
     avg_quality |-> NextMean(existing.avg_quality, existing.usage_count,
                              OrZero(record.quality_score)),
     avg_expressivity |-> NextMean(existing.avg_expressivity, existing.usage_count,
                                   OrZero(record.expressivity_score)),
     usage_count |-> existing.usage_count + 1]

RECURSIVE FoldStats(_, _)
\* data?.forEach(record => ...) over statsMap, a Map in insertion order
FoldStats(data, statsMap) ==
    IF data = <<>> THEN statsMap
    ELSE LET record == Head(data)
             hit == {i \in 1..Len(statsMap) : statsMap[i].model_name = record.model_name}
         IN IF hit # {}
            THEN LET i == CHOOSE j \in hit : TRUE
                 IN FoldStats(Tail(data),
                              [statsMap EXCEPT ![i] = UpdateStatsEntry(statsMap[i], record)])
            ELSE FoldStats(Tail(data), Append(statsMap, NewStatsEntry(record)))

\* Array.from(statsMap.values())
ComputeStats(data) == FoldStats(data, <<>>)

\* ------------------------------------------- speech-to-speech function
Absent == "<absent>"    \* formData.get(...) of a field that is not there: null
AudioKinds == {Absent, "", "text", "file", "bigfile"}

\* !x on a form value
Falsy(x) == x \in {Absent, ""}

\* greetings[language] || greetings['en']
TranscriptLanguage(language) == IF language \in Languages THEN language ELSE "en"

\* processMoshiModel / processUltravoxModel / processSpiritLMModel
ProcessModel(model, language) ==
    [transcript |-> <<model, TranscriptLanguage(language)>>,
     audioUrl |-> <<"https://mock-audio-storage.com", model, language>>]

ErrorResponse(message) ==
    [status |-> 500, success |-> FALSE, error |-> message, called |-> "none",
     transcript |-> <<>>, audioUrl |-> <<>>]

\* a check that forgets the language
MissingParameter_NoLanguage(req) == Falsy(req.audio) \/ Falsy(req.model)

\* if (!audioBlob || !model || !language)
MissingParameter(req) == Falsy(req.audio) \/ Falsy(req.model) \/ Falsy(req.language)

\* a switch whose default branch processes the request as well
SupportedModel_Any(model) == TRUE

\* the cases of switch (model); anything else is the default branch
SupportedModel(model) == model \in ModelNames

\* the serve handler: the response to one request
ServeHandler(req) ==
    IF req.method = "OPTIONS"
    THEN [status |-> 200, success |-> FALSE, error |-> "", called |-> "none",
          transcript |-> <<>>, audioUrl |-> <<>>]
    ELSE IF ~req.multipart
    THEN ErrorResponse("formData")
    ELSE IF MissingParameter(req)
    THEN ErrorResponse("Missing required parameters: audio, model, or language")
    ELSE IF req.audio = "text"
    THEN ErrorResponse("audioBlob.arrayBuffer is not a function")
    ELSE IF req.audio = "bigfile"
    THEN ErrorResponse("Maximum call stack size exceeded")
    ELSE IF SupportedModel(req.model)
    THEN LET processedResponse == ProcessModel(req.model, req.language)
         IN [status |-> 200, success |-> TRUE, error |-> "", called |-> req.model,
             transcript |-> processedResponse.transcript,
             audioUrl |-> processedResponse.audioUrl]
    ELSE ErrorResponse("Unsupported model")

\* formData of processAudio
ClientForm(audio, model, language) ==
    [method |-> "POST", multipart |-> TRUE, audio |-> audio, model |-> model,
     language |-> language]

\* supabase.functions.invoke: a non-2xx response is an error, data stays null
InvokeOk(transportOk, resp) == transportOk /\ resp.status = 200

\* if (data.audioUrl && data.transcript)
HasResult(resp) == resp.audioUrl # <<>> /\ resp.transcript # <<>>

\* ------------------------------------------------------- initial state
NoRow == [id |-> NoId, conversation_id |-> NoId, is_user |-> FALSE,
          latency_ms |-> 0, created_at |-> 0]

\* conversations 1..InitConversations are the owner's, the next is another account's
InitConversationRows ==
    {[id |-> k, user_id |-> (IF k <= InitConversations THEN Me ELSE Other),
      model_used |-> "moshi", language |-> "en", created_at |-> 3 * k - 2]
        : k \in 1..(InitConversations + 1)}

\* each holds one recorded exchange
InitMessageRows ==
    UNION {{[id |-> 3 * k - 1, conversation_id |-> k, is_user |-> TRUE,
             latency_ms |-> 1, created_at |-> 3 * k - 1],
            [id |-> 3 * k, conversation_id |-> k, is_user |-> FALSE,
             latency_ms |-> 1, created_at |-> 3 * k]}
               : k \in 1..(InitConversations + 1)}

InitPerformanceRows ==
    <<[user_id |-> Other, model_name |-> "ultravox", language |-> "en",
       latency_ms |-> 1, quality_score |-> 4, expressivity_score |-> 4]>>

IdleGateway == [phase |-> "idle"]

\* the first instant after the stored rows of the initial state
FirstInstant == 3 * (InitConversations + 1) + 1

\* the first render: useState defaults, the two useEffect fetches started
PageInit ==
    /\ dbConversations = InitConversationRows
    /\ dbMessages = InitMessageRows
    /\ clock = FirstInstant
    /\ selectedModel = "moshi"
    /\ selectedLanguage = "en"
    /\ currentConversationId = NoId
    /\ messages = <<>>
    /\ modelStats = <<>>
    /\ captured = [selectedModel |-> "moshi", selectedLanguage |-> "en",
                   currentConversationId |-> NoId]
    /\ isRecording = FALSE
    /\ isProcessing = FALSE
    /\ mediaRecorderRef = 0
    /\ tasks = <<>>
    /\ conversations = <<>>
    /\ listFetch = TRUE
    /\ statsFetches = 1
    /\ msgFetches = {}
    /\ deletes = {}
    /\ lastOp = [op |-> "mount", arg |-> NoId, ok |-> TRUE]
    /\ lastExchange = 0

SessionInit == PageInit /\ dbPerformance = InitPerformanceRows

Init == SessionInit /\ gw = IdleGateway

\* ------------------------------------------------------ closures
\* startRecording is useCallback(..., [toast]) and toast is the same function on
\* every render, so the startRecording a click runs, the processAudio its onstop
\* calls and the onTranscriptionReceived that one calls are those of the render
\* that mounted the recorder.
ClosureModel == captured.selectedModel
ClosureLanguage == captured.selectedLanguage
ClosureConversationId == captured.currentConversationId

\* ------------------------------------------------------ Index: settings
SelectModel(m) ==
    /\ m # selectedModel
    /\ selectedModel' = m
    /\ lastOp' = [op |-> "setSelectedModel", arg |-> NoId, ok |-> TRUE]
    /\ UNCHANGED <<dbVars, selectedLanguage, currentConversationId, messages, modelStats,
                   captured, recorderVars, historyVars, statsFetches, msgFetches, deletes,
                   lastExchange, gw>>

SelectLanguage(l) ==
    /\ l # selectedLanguage
    /\ selectedLanguage' = l
    /\ lastOp' = [op |-> "setSelectedLanguage", arg |-> NoId, ok |-> TRUE]
    /\ UNCHANGED <<dbVars, selectedModel, currentConversationId, messages, modelStats,
                   captured, recorderVars, historyVars, statsFetches, msgFetches, deletes,
                   lastExchange, gw>>

\* ------------------------------------------------------ AudioRecorder
NewTask ==
    [pc |-> "granting", stream |-> "none",
     selModel |-> selectedModel, selLanguage |-> selectedLanguage,
     reqModel |-> "", reqLanguage |-> "", latency |-> 0,
     convId |-> NoId, created |-> FALSE, activeAtCall |-> NoId, prev |-> 0, prior |-> 0,
     userMessage |-> NoRow, aiMessage |-> NoRow,
     toasts |-> {}, outcome |-> "", perfOk |-> FALSE]

\* Record pressed: startRecording up to await getUserMedia
ClickRecord ==
    /\ ~isRecording /\ ~isProcessing
    /\ Len(tasks) < MaxRecordings
    /\ tasks' = Append(tasks, NewTask)
    /\ lastOp' = [op |-> "startRecording", arg |-> Len(tasks) + 1, ok |-> TRUE]
    /\ UNCHANGED <<dbVars, indexVars, captured, isRecording, isProcessing, mediaRecorderRef,
                   historyVars, statsFetches, msgFetches, deletes, lastExchange, gw>>

\* getUserMedia settles: the rest of startRecording, or its catch
GetUserMediaResolve(t, ok) ==
    /\ tasks[t].pc = "granting"
    /\ IF ok
       THEN /\ tasks' = [tasks EXCEPT ![t].pc = "recording", ![t].stream = "held"]
            /\ mediaRecorderRef' = t
            /\ isRecording' = TRUE
       ELSE /\ tasks' = [tasks EXCEPT ![t].pc = "done", ![t].outcome = "denied",
                                      ![t].toasts = @ \cup {"Recording Error"}]
            /\ UNCHANGED <<mediaRecorderRef, isRecording>>
    /\ lastOp' = [op |-> "getUserMedia", arg |-> t, ok |-> ok]
    /\ UNCHANGED <<dbVars, indexVars, captured, isProcessing, historyVars, statsFetches,
                   msgFetches, deletes, lastExchange, gw>>

\* Stop pressed: stopRecording
ClickStop ==
    /\ isRecording /\ ~isProcessing
    /\ IF mediaRecorderRef # 0 /\ isRecording
       THEN /\ tasks' = [tasks EXCEPT ![mediaRecorderRef].pc =
                            IF @ = "recording" THEN "stopped" ELSE @]
            /\ isRecording' = FALSE
       ELSE UNCHANGED <<tasks, isRecording>>
    /\ lastOp' = [op |-> "stopRecording", arg |-> mediaRecorderRef, ok |-> TRUE]
    /\ UNCHANGED <<dbVars, indexVars, captured, isProcessing, mediaRecorderRef, historyVars,
                   statsFetches, msgFetches, deletes, lastExchange, gw>>

\* the recorder's stop event: onstop up to the invoke of processAudio
OnStop(t) ==
    /\ tasks[t].pc = "stopped"
    /\ isProcessing' = TRUE
    /\ tasks' = [tasks EXCEPT ![t].pc = "submitting",
                              ![t].reqModel = ClosureModel,
                              ![t].reqLanguage = ClosureLanguage]
    /\ lastOp' = [op |-> "processAudio", arg |-> t, ok |-> TRUE]
    /\ UNCHANGED <<dbVars, indexVars, captured, isRecording, mediaRecorderRef, historyVars,
                   statsFetches, msgFetches, deletes, lastExchange, gw>>

\* the row of createNewConversation's insert
ConversationRow ==
    [id |-> clock, user_id |-> Me, model_used |-> ClosureModel,
     language |-> ClosureLanguage, created_at |-> clock]

\* the rows of the two message inserts
UserMessageRow(t) ==
    [id |-> clock, conversation_id |-> tasks[t].convId, is_user |-> TRUE,
     latency_ms |-> tasks[t].latency, created_at |-> clock]

AiMessageRow(t) ==
    [id |-> clock, conversation_id |-> tasks[t].convId, is_user |-> FALSE,
     latency_ms |-> tasks[t].latency, created_at |-> clock]

\* the row of the model_performance insert
PerformanceRow(t, quality, expressivity) ==
    [user_id |-> Me, model_name |-> ClosureModel, language |-> ClosureLanguage,
     latency_ms |-> tasks[t].latency, quality_score |-> quality,
     expressivity_score |-> expressivity]

\* setMessages(prev => [...prev, userMessage, aiMessage])
AppendExchange(prev, userMessage, aiMessage) == prev \o <<userMessage, aiMessage>>

\* if (!conversationId) { conversationId = await createNewConversation(); ... }
NeedsConversation(conversationId) == conversationId = NoId

\* a processAudio without its finally
ProcessAudioFinally_Missing == UNCHANGED isProcessing

\* finally { setIsProcessing(false) }
ProcessAudioFinally == isProcessing' = FALSE

\* a catch that raises no toast
ProcessAudioCatch_Silent(task) ==
    [task EXCEPT !.pc = "done", !.outcome = "submitFailed"]

\* the catch of processAudio: the error toast; the callback is not called
ProcessAudioCatch(task) ==
    [task EXCEPT !.pc = "done", !.outcome = "submitFailed",
                 !.toasts = @ \cup {"Processing Error"}]

\* the response of the invoke arrives: the rest of processAudio, the synchronous start of
\* handleTranscriptionReceived (called, not awaited), finally, and the release of the
\* stream that onstop does once processAudio has returned
InvokeResolve(t, transportOk, audio, latency) ==
    /\ tasks[t].pc = "submitting"
    /\ LET resp == ServeHandler(ClientForm(audio, tasks[t].reqModel, tasks[t].reqLanguage))
       IN IF InvokeOk(transportOk, resp)
          THEN IF HasResult(resp)
               THEN tasks' = [tasks EXCEPT
                        ![t].pc = IF NeedsConversation(ClosureConversationId)
                                  THEN "createConv" ELSE "userInsert",
                        ![t].convId = ClosureConversationId,
                        ![t].prior = Len(SelectMessages(Me, ClosureConversationId)),
                        ![t].activeAtCall = currentConversationId,
                        ![t].prev = lastExchange,
                        ![t].latency = latency,
                        ![t].stream = "released",
                        ![t].toasts = @ \cup {"Processing Complete"}]
               ELSE tasks' = [tasks EXCEPT ![t].pc = "done", ![t].outcome = "noResult",
                                           ![t].latency = latency,
                                           ![t].stream = "released"]
          ELSE /\ latency = 1
               /\ tasks' = [tasks EXCEPT ![t] = ProcessAudioCatch(
                                                   [@ EXCEPT !.stream = "released"])]
    /\ ProcessAudioFinally
    /\ lastOp' = [op |-> "invoke", arg |-> t, ok |-> tasks'[t].pc # "done"]
    /\ UNCHANGED <<dbVars, indexVars, captured, isRecording, mediaRecorderRef, historyVars,
                   statsFetches, msgFetches, deletes, lastExchange, gw>>

\* a catch that resets the list the way the success path does
CreateConversationCatch_ClearsList ==
    /\ UNCHANGED currentConversationId
    /\ messages' = <<>>

\* the catch of createNewConversation: a toast and return null, no state is set
CreateConversationCatch == UNCHANGED <<currentConversationId, messages>>

\* createNewConversation after its await
CreateConversationResolve(t, ok) ==
    /\ tasks[t].pc = "createConv"
    /\ IF ok /\ CanInsertConversation(Me, ConversationRow)
       THEN /\ dbConversations' = dbConversations \cup {ConversationRow}
            /\ clock' = clock + 1
            /\ currentConversationId' = ConversationRow.id
            /\ messages' = <<>>
            /\ tasks' = [tasks EXCEPT ![t].pc = "userInsert",
                                      ![t].convId = ConversationRow.id,
                                      ![t].created = TRUE,
                                      ![t].prior = 0]
       ELSE /\ tasks' = [tasks EXCEPT ![t].pc = "done", ![t].outcome = "createFailed",
                                      ![t].toasts = @ \cup {"Error"}]
            /\ CreateConversationCatch
            /\ UNCHANGED <<dbConversations, clock>>
    /\ lastOp' = [op |-> "createNewConversation", arg |-> t, ok |-> tasks'[t].pc # "done"]
    /\ UNCHANGED <<dbMessages, dbPerformance, selectedModel, selectedLanguage, modelStats,
                   captured, isRecording, isProcessing, mediaRecorderRef, historyVars,
                   statsFetches, msgFetches, deletes, lastExchange, gw>>

\* the user message insert settles
UserInsertResolve(t, ok) ==
    /\ tasks[t].pc = "userInsert"
    /\ IF ok /\ CanInsertMessage(Me, tasks[t].convId)
       THEN /\ dbMessages' = dbMessages \cup {UserMessageRow(t)}
            /\ clock' = clock + 1
            /\ tasks' = [tasks EXCEPT ![t].pc = "aiInsert",
                                      ![t].userMessage = UserMessageRow(t)]
       ELSE /\ tasks' = [tasks EXCEPT ![t].pc = "done", ![t].outcome = "userFailed"]
            /\ UNCHANGED <<dbMessages, clock>>
    /\ lastOp' = [op |-> "insertUserMessage", arg |-> t, ok |-> tasks'[t].pc # "done"]
    /\ UNCHANGED <<dbConversations, dbPerformance, indexVars, captured, isRecording,
                   isProcessing, mediaRecorderRef, historyVars, statsFetches, msgFetches,
                   deletes, lastExchange, gw>>

\* the assistant message insert settles
AiInsertResolve(t, ok) ==
    /\ tasks[t].pc = "aiInsert"
    /\ IF ok /\ CanInsertMessage(Me, tasks[t].convId)
       THEN /\ dbMessages' = dbMessages \cup {AiMessageRow(t)}
            /\ clock' = clock + 1
            /\ tasks' = [tasks EXCEPT ![t].pc = "perfInsert",
                                      ![t].aiMessage = AiMessageRow(t)]
       ELSE /\ tasks' = [tasks EXCEPT ![t].pc = "done", ![t].outcome = "aiFailed"]
            /\ UNCHANGED <<dbMessages, clock>>
    /\ lastOp' = [op |-> "insertAiMessage", arg |-> t, ok |-> tasks'[t].pc # "done"]
    /\ UNCHANGED <<dbConversations, dbPerformance, indexVars, captured, isRecording,
                   isProcessing, mediaRecorderRef, historyVars, statsFetches, msgFetches,
                   deletes, lastExchange, gw>>

\* the model_performance insert settles (its error is not looked at), then
\* setMessages and fetchModelStats
PerfInsertResolve(t, ok, quality, expressivity) ==
    /\ tasks[t].pc = "perfInsert"
    /\ LET row == PerformanceRow(t, quality, expressivity)
           stored == ok /\ CanInsertPerformance(Me, row)
       IN /\ IF stored
             THEN dbPerformance' = Append(dbPerformance, row)
             ELSE /\ quality = 4 /\ expressivity = 4
                  /\ UNCHANGED dbPerformance
          /\ tasks' = [tasks EXCEPT ![t].pc = "done", ![t].outcome = "recorded",
                                    ![t].perfOk = stored]
          /\ messages' = AppendExchange(messages, tasks[t].userMessage, tasks[t].aiMessage)
    /\ statsFetches' = statsFetches + 1
    /\ lastExchange' = t
    /\ lastOp' = [op |-> "recordExchange", arg |-> t, ok |-> TRUE]
    /\ UNCHANGED <<dbConversations, dbMessages, clock, selectedModel, selectedLanguage,
                   currentConversationId, modelStats, captured, isRecording, isProcessing,
                   mediaRecorderRef, historyVars, msgFetches, deletes, gw>>

\* fetchModelStats after its await
ModelStatsResolve(ok) ==
    /\ statsFetches > 0
    /\ statsFetches' = statsFetches - 1
    /\ IF ok THEN modelStats' = ComputeStats(SelectPerformance(Me))
             ELSE UNCHANGED modelStats
    /\ lastOp' = [op |-> "fetchModelStats", arg |-> NoId, ok |-> ok]
    /\ UNCHANGED <<dbVars, selectedModel, selectedLanguage, currentConversationId, messages,
                   captured, recorderVars, historyVars, msgFetches, deletes, lastExchange, gw>>

\* the Analytics tab opened and the Conversation tab opened again while the recorder
\* is at rest: the tab's content is mounted anew, and the callbacks of the new
\* AudioRecorder are those of the current render
RecorderAtRest ==
    /\ ~isRecording /\ ~isProcessing
    /\ \A t \in 1..Len(tasks) :
           tasks[t].pc \notin {"granting", "recording", "stopped", "submitting"}

Remount ==
    /\ RecorderAtRest
    /\ captured' = [selectedModel |-> selectedModel, selectedLanguage |-> selectedLanguage,
                    currentConversationId |-> currentConversationId]
    /\ captured' # captured
    /\ mediaRecorderRef' = 0
    /\ lastOp' = [op |-> "remount", arg |-> NoId, ok |-> TRUE]
    /\ UNCHANGED <<dbVars, indexVars, isRecording, isProcessing, tasks, historyVars,
                   statsFetches, msgFetches, deletes, lastExchange, gw>>

\* ------------------------------------------------------ Index: navigation
\* a reset that forgets the list
HandleNewConversation_KeepsList ==
    /\ currentConversationId' = NoId
    /\ UNCHANGED messages

\* handleNewConversation
HandleNewConversation ==
    /\ currentConversationId' = NoId
    /\ messages' = <<>>

\* New pressed
NewConversation ==
    /\ HandleNewConversation
    /\ lastOp' = [op |-> "handleNewConversation", arg |-> NoId, ok |-> TRUE]
    /\ UNCHANGED <<dbVars, selectedModel, selectedLanguage, modelStats, captured,
                   recorderVars, historyVars, statsFetches, msgFetches, deletes,
                   lastExchange, gw>>

\* a history entry pressed: handleSelectConversation up to the await of fetchMessages
SelectConversation(c) ==
    /\ \E i \in 1..Len(conversations) : conversations[i] = c
    /\ currentConversationId' = c
    /\ msgFetches' = msgFetches \cup {c}
    /\ lastOp' = [op |-> "handleSelectConversation", arg |-> c, ok |-> TRUE]
    /\ UNCHANGED <<dbVars, selectedModel, selectedLanguage, messages, modelStats, captured,
                   recorderVars, historyVars, statsFetches, deletes, lastExchange, gw>>

\* fetchMessages after its await
FetchMessagesResolve(c, ok) ==
    /\ c \in msgFetches
    /\ msgFetches' = msgFetches \ {c}
    /\ IF ok THEN messages' = SelectMessages(Me, c)
             ELSE UNCHANGED messages
    /\ lastOp' = [op |-> "fetchMessages", arg |-> c, ok |-> ok]
    /\ UNCHANGED <<dbVars, selectedModel, selectedLanguage, currentConversationId, modelStats,
                   captured, recorderVars, historyVars, statsFetches, deletes, lastExchange, gw>>

\* ------------------------------------------------------ ConversationHistory
\* fetchConversations after its await (started by the mount effect)
FetchConversationsResolve(ok) ==
    /\ listFetch
    /\ listFetch' = FALSE
    /\ IF ok THEN conversations' = SelectConversations(Me)
             ELSE UNCHANGED conversations
    /\ lastOp' = [op |-> "fetchConversations", arg |-> NoId, ok |-> ok]
    /\ UNCHANGED <<dbVars, indexVars, captured, recorderVars, statsFetches, msgFetches,
                   deletes, lastExchange, gw>>

\* the bin of an entry pressed: deleteConversation up to its await; the handler
\* keeps the selectedConversationId of the render it was made in
DeleteClick(c) ==
    /\ \E i \in 1..Len(conversations) : conversations[i] = c
    /\ Cardinality(deletes) < MaxDeletes
    /\ deletes' = deletes \cup {[id |-> c, selected |-> currentConversationId]}
    /\ lastOp' = [op |-> "deleteConversation", arg |-> c, ok |-> TRUE]
    /\ UNCHANGED <<dbVars, indexVars, captured, recorderVars, historyVars, statsFetches,
                   msgFetches, lastExchange, gw>>

\* deleteConversation called with an id that is client input, not an entry of the
\* list: any stored conversation
DeleteCall(c) ==
    /\ \E r \in dbConversations : r.id = c
    /\ \A i \in 1..Len(conversations) : conversations[i] # c
    /\ Cardinality(deletes) < MaxDeletes
    /\ deletes' = deletes \cup {[id |-> c, selected |-> currentConversationId]}
    /\ lastOp' = [op |-> "deleteConversation", arg |-> c, ok |-> TRUE]
    /\ UNCHANGED <<dbVars, indexVars, captured, recorderVars, historyVars, statsFetches,
                   msgFetches, lastExchange, gw>>

\* setConversations(prev => prev.filter(conv => conv.id !== conversationId))
FilterConversations(prev, conversationId) ==
    SelectSeq(prev, LAMBDA id : id # conversationId)

\* if (selectedConversationId === conversationId) onNewConversation()
DeletedWasSelected(d) == d.selected = d.id

\* deleteConversation after its await
DeleteResolve(d, ok) ==
    /\ d \in deletes
    /\ deletes' = deletes \ {d}
    /\ IF ok
       THEN /\ dbConversations' = ConversationsAfterDelete(Me, d.id)
            /\ dbMessages' = MessagesAfterDelete(Me, d.id)
            /\ conversations' = FilterConversations(conversations, d.id)
            /\ IF DeletedWasSelected(d)
               THEN HandleNewConversation
               ELSE UNCHANGED <<currentConversationId, messages>>
       ELSE UNCHANGED <<dbConversations, dbMessages, conversations, currentConversationId,
                        messages>>
    /\ lastOp' = [op |-> "deleteResolved", arg |-> d.id, ok |-> ok]
    /\ UNCHANGED <<dbPerformance, clock, selectedModel, selectedLanguage, modelStats,
                   captured, recorderVars, listFetch, statsFetches, msgFetches, lastExchange, gw>>

\* ------------------------------------------------------ another account
\* a session of another account inserts a conversation of its own (the INSERT
\* policy admits no other user_id)
OtherCreatesConversation(m) ==
    /\ Cardinality({r \in dbConversations : r.user_id = Other}) < MaxForeign
    /\ clock < FirstInstant + MaxInstants
    /\ LET row == [id |-> clock, user_id |-> Other, model_used |-> m,
                   language |-> "en", created_at |-> clock]
       IN /\ CanInsertConversation(Other, row)
          /\ dbConversations' = dbConversations \cup {row}
    /\ clock' = clock + 1
    /\ lastOp' = [op |-> "otherCreates", arg |-> clock, ok |-> TRUE]
    /\ UNCHANGED <<dbMessages, dbPerformance, indexVars, captured, recorderVars,
                   historyVars, statsFetches, msgFetches, deletes, lastExchange, gw>>

\* a session of another account deletes a conversation: the DELETE policy lets it
\* remove its own rows only
OtherDeletesConversation(c) ==
    /\ \E r \in dbConversations : r.id = c
    /\ dbConversations' = ConversationsAfterDelete(Other, c)
    /\ dbMessages' = MessagesAfterDelete(Other, c)
    /\ dbConversations' # dbConversations
    /\ lastOp' = [op |-> "otherDeletes", arg |-> c, ok |-> TRUE]
    /\ UNCHANGED <<dbPerformance, clock, indexVars, captured, recorderVars,
                   historyVars, statsFetches, msgFetches, deletes, lastExchange, gw>>

OtherAccount ==
    \/ \E m \in ModelNames : OtherCreatesConversation(m)
    \/ \E c \in {r.id : r \in dbConversations} : OtherDeletesConversation(c)

\* ------------------------------------------------------ the session
\* settings selectors
Settings ==
    \/ \E m \in ModelNames : SelectModel(m)
    \/ \E l \in SelectableLanguages : SelectLanguage(l)

\* the recorder up to the response of the edge function
RecorderSteps ==
    \/ \E t \in 1..Len(tasks), ok \in BOOLEAN : GetUserMediaResolve(t, ok)
    \/ ClickStop
    \/ \E t \in 1..Len(tasks) : OnStop(t)
    \/ \E t \in 1..Len(tasks), transportOk \in BOOLEAN, audio \in {"file", "bigfile"},
          latency \in Latencies : InvokeResolve(t, transportOk, audio, latency)

Recorder == ClickRecord \/ RecorderSteps

\* handleTranscriptionReceived after its awaits
Exchange ==
    \/ \E t \in 1..Len(tasks), ok \in BOOLEAN : CreateConversationResolve(t, ok)
    \/ \E t \in 1..Len(tasks), ok \in BOOLEAN : UserInsertResolve(t, ok)
    \/ \E t \in 1..Len(tasks), ok \in BOOLEAN : AiInsertResolve(t, ok)
    \/ \E t \in 1..Len(tasks), ok \in BOOLEAN, q \in MockScores, e \in MockScores :
          PerfInsertResolve(t, ok, q, e)

Stats == \E ok \in BOOLEAN : ModelStatsResolve(ok)

Navigation ==
    \/ NewConversation
    \/ \E c \in {conversations[i] : i \in 1..Len(conversations)} : SelectConversation(c)
    \/ \E c \in msgFetches, ok \in BOOLEAN : FetchMessagesResolve(c, ok)
    \/ \E ok \in BOOLEAN : FetchConversationsResolve(ok)

Deletion ==
    \/ \E c \in {conversations[i] : i \in 1..Len(conversations)} : DeleteClick(c)
    \/ \E d \in deletes, ok \in BOOLEAN : DeleteResolve(d, ok)

\* everything the page can do
Next ==
    \/ Settings \/ Recorder \/ Exchange \/ Stats \/ Remount \/ Navigation \/ Deletion
    \/ \E c \in {r.id : r \in dbConversations} : DeleteCall(c)
    \/ OtherAccount

Spec == Init /\ [][Next]_vars

\* recordings and their exchanges, one after or over the other
NextExchange == Recorder \/ Exchange \/ Stats

SpecExchange == Init /\ [][NextExchange]_vars

\* what happens without the user: the device answers, the recorder delivers its
\* stop event, requests get their responses
Resolutions ==
    \/ \E t \in 1..Len(tasks), ok \in BOOLEAN : GetUserMediaResolve(t, ok)
    \/ \E t \in 1..Len(tasks) : OnStop(t)
    \/ \E t \in 1..Len(tasks), transportOk \in BOOLEAN, audio \in {"file", "bigfile"},
          latency \in Latencies : InvokeResolve(t, transportOk, audio, latency)
    \/ Exchange
    \/ Stats

\* every outstanding request is answered in the end, and a user who is recording
\* presses Stop in the end
SpecExchangeLive == SpecExchange /\ WF_vars(Resolutions) /\ WF_vars(ClickStop)

\* one recording under changing settings
NextSettings ==
    \/ Settings
    \/ (Len(tasks) < MaxSoloRecordings /\ ClickRecord)
    \/ RecorderSteps
    \/ Exchange
    \/ Stats

SpecSettings == Init /\ [][NextSettings]_vars

\* one exchange against the history panel
NextHistory ==
    \/ (Len(tasks) < MaxSoloRecordings /\ ClickRecord)
    \/ RecorderSteps
    \/ Exchange
    \/ Navigation
    \/ Deletion

SpecHistory == Init /\ [][NextHistory]_vars

\* one exchange against the tabs and the history panel, nothing deleted
NextTabs ==
    \/ (Len(tasks) < MaxSoloRecordings /\ ClickRecord)
    \/ RecorderSteps
    \/ Exchange
    \/ Remount
    \/ Navigation

SpecTabs == Init /\ [][NextTabs]_vars

\* one exchange against selections in the history panel, with the statistics
\* queries answered
NextSwitching ==
    \/ (Len(tasks) < MaxSoloRecordings /\ ClickRecord)
    \/ RecorderSteps
    \/ Exchange
    \/ Stats
    \/ Navigation

SpecSwitching == Init /\ [][NextSwitching]_vars

\* the history panel with deletes of any stored conversation
NextOwnership ==
    \/ Navigation
    \/ Deletion
    \/ \E c \in {r.id : r \in dbConversations} : DeleteCall(c)

SpecOwnership == Init /\ [][NextOwnership]_vars

\* the list of the history panel while the owner records and another account
\* creates and deletes conversations
NextOwners ==
    \/ (Len(tasks) < MaxSoloRecordings /\ ClickRecord)
    \/ RecorderSteps
    \/ Exchange
    \/ \E ok \in BOOLEAN : FetchConversationsResolve(ok)
    \/ OtherAccount

SpecOwners == Init /\ [][NextOwners]_vars

\* ------------------------------------------------------ statistics alone
Scores == {2, 4}

\* rows model_performance may hold: the owner's, and one of another account
PerformanceRowsAllowed ==
    {[user_id |-> Me, model_name |-> m, language |-> "en", latency_ms |-> l,
      quality_score |-> q, expressivity_score |-> e]
        : m \in ModelNames, l \in Latencies, q \in Scores, e \in Scores}
    \cup {InitPerformanceRows[1]}

PerformanceTables ==
    UNION {[1..n -> PerformanceRowsAllowed] : n \in 0..MaxRecords}

\* the page opened over any stored measurements
StatsInit ==
    /\ PageInit
    /\ dbPerformance \in PerformanceTables
    /\ gw = IdleGateway

SpecStats == StatsInit /\ [][Stats]_vars

\* ------------------------------------------------------ the edge function
sessionVars == <<dbConversations, dbMessages, dbPerformance, clock,
                 selectedModel, selectedLanguage, currentConversationId, messages,
                 modelStats, captured, isRecording, isProcessing, mediaRecorderRef, tasks,
                 conversations, listFetch, statsFetches, msgFetches, deletes,
                 lastOp, lastExchange>>

\* what a caller of AudioRecorder may pass as selectedModel / selectedLanguage: strings
PropModels == ModelNames \cup {"whisper", ""}
PropLanguages == Languages \cup {"xx", ""}

NoRequest == [method |-> "", multipart |-> FALSE, audio |-> Absent, model |-> Absent,
              language |-> Absent]
NoResponse == [status |-> 0, success |-> FALSE, error |-> "", called |-> "none",
               transcript |-> <<>>, audioUrl |-> <<>>]

\* a recorder about to run processAudio with the props it was given
ClientStarts ==
    {[phase |-> "client", origin |-> "client", model |-> m, language |-> l,
      req |-> NoRequest, resp |-> NoResponse, outcome |-> ""]
        : m \in PropModels, l \in PropLanguages}

\* any request on the wire, from whatever client
RawStarts ==
    {[phase |-> "inflight", origin |-> "raw", model |-> "", language |-> "",
      req |-> [method |-> me, multipart |-> mp, audio |-> a, model |-> m, language |-> l],
      resp |-> NoResponse, outcome |-> ""]
        : me \in {"POST", "OPTIONS"}, mp \in BOOLEAN, a \in AudioKinds,
          m \in PropModels \cup {Absent}, l \in PropLanguages \cup {Absent}}

GatewayInit == SessionInit /\ gw \in ClientStarts \cup RawStarts

\* processAudio up to the invoke: the form goes out whatever the props are
GwProcessAudio(audio) ==
    /\ gw.phase = "client"
    /\ gw' = [gw EXCEPT !.phase = "inflight",
                        !.req = ClientForm(audio, gw.model, gw.language)]
    /\ UNCHANGED sessionVars

\* the function serves the request
GwServe ==
    /\ gw.phase = "inflight"
    /\ gw' = [gw EXCEPT !.phase = "responded", !.resp = ServeHandler(gw.req)]
    /\ UNCHANGED sessionVars

\* the rest of processAudio: throw on error, the callback on a result, the catch
GwReceive(transportOk) ==
    /\ gw.phase = "responded" /\ gw.origin = "client"
    /\ gw' = [gw EXCEPT !.phase = "done",
                        !.outcome = IF InvokeOk(transportOk, gw.resp)
                                    THEN IF HasResult(gw.resp)
                                         THEN "onTranscriptionReceived" ELSE "nothing"
                                    ELSE "Processing Error"]
    /\ UNCHANGED sessionVars

NextGateway ==
    \/ \E audio \in {"file", "bigfile"} : GwProcessAudio(audio)
    \/ GwServe
    \/ \E transportOk \in BOOLEAN : GwReceive(transportOk)

SpecGateway == GatewayInit /\ [][NextGateway]_vars

\* ====================================================== properties

\* the tasks whose handleTranscriptionReceived has passed its conversation step
PastEnsure(t) == tasks[t].pc \in {"userInsert", "aiInsert", "perfInsert"}
                    \/ tasks[t].outcome \in {"userFailed", "aiFailed", "recorded"}

\* ------------------------------------------------------ C1
\* C1 (as stated): when an exchange is recorded while the conversation of the
\* previous recorded exchange is still the active one, it is recorded into that
\* same conversation and no conversation is created for it.
C1_SameConversation ==
    \A t \in 1..Len(tasks) :
        (/\ PastEnsure(t)
         /\ tasks[t].prev # 0
         /\ tasks[t].activeAtCall = tasks[tasks[t].prev].convId)
            => /\ tasks[t].convId = tasks[tasks[t].prev].convId
               /\ ~tasks[t].created

\* ------------------------------------------------------ C2
\* C2 (as stated): the request of an exchange carries the model and language that
\* were selected when Record was pressed, and once a first exchange is recorded
\* with its measurement stored, the statistics are one entry for the selected
\* model with usage count 1 and an average latency equal to the measured one.
C2_SelectionIsRecorded ==
    \A t \in 1..Len(tasks) :
        /\ tasks[t].reqModel # ""
              => /\ tasks[t].reqModel = tasks[t].selModel
                 /\ tasks[t].reqLanguage = tasks[t].selLanguage
        /\ (tasks[t].outcome = "recorded" /\ tasks[t].perfOk)
              => LET stats == ComputeStats(SelectPerformance(Me))
                 IN /\ Len(stats) = 1
                    /\ stats[1].model_name = tasks[t].selModel
                    /\ stats[1].usage_count = 1
                    /\ stats[1].avg_latency = <<tasks[t].latency, 1>>

\* ------------------------------------------------------ C3
\* C3 (as stated): when the recording of an exchange completes and its
\* conversation is the active one, the in-memory list is the list before with the
\* user message and then the assistant message appended, and the stored messages
\* of the conversation are those it had when the recording began followed by the
\* same two, the first with is_user = true and the second with is_user = false.
C3_ExchangeAppended ==
    [][lastOp'.op = "recordExchange" =>
          LET t == lastOp'.arg
              c == tasks[t].convId
              u == tasks[t].userMessage
              a == tasks[t].aiMessage
              stored == SelectMessages(Me, c)
          IN currentConversationId = c =>
                /\ messages' = messages \o <<u, a>>
                /\ u.is_user /\ ~a.is_user
                /\ Len(stored) = tasks[t].prior + 2
                /\ stored[Len(stored) - 1] = u
                /\ stored[Len(stored)] = a]_vars

\* ------------------------------------------------------ C4
ErrorToasts == {"Error", "Processing Error", "Recording Error"}

\* C4 (as stated): when the assistant message cannot be stored after the user
\* message was, the user message stays stored, no measurement is stored for the
\* exchange, and the failure is surfaced as a notification.
C4_AssistantFailureSurfaced ==
    \A t \in 1..Len(tasks) :
        tasks[t].outcome = "aiFailed"
            => /\ tasks[t].userMessage \in dbMessages
               /\ ~tasks[t].perfOk
               /\ tasks[t].toasts \cap ErrorToasts # {}

\* ------------------------------------------------------ C5
\* C5: when the creation of the conversation fails while no conversation is
\* active, the active conversation id stays unset, the in-memory list and the
\* stored rows are as before, and the exchange ends there: it has no conversation,
\* no message and no measurement.
C5_CreationFailure ==
    [][(/\ lastOp'.op = "createNewConversation"
        /\ ~lastOp'.ok
        /\ currentConversationId = NoId)
          => LET t == lastOp'.arg
             IN /\ currentConversationId' = NoId
                /\ messages' = messages
                /\ UNCHANGED <<dbConversations, dbMessages, dbPerformance>>
                /\ tasks'[t].pc = "done"
                /\ tasks'[t].outcome = "createFailed"
                /\ tasks'[t].convId = NoId
                /\ tasks'[t].userMessage = NoRow
                /\ tasks'[t].aiMessage = NoRow
                /\ ~tasks'[t].perfOk]_vars

C5_Witness ==
    /\ lastOp.op = "createNewConversation"
    /\ ~lastOp.ok
    /\ tasks[lastOp.arg].outcome = "createFailed"
    /\ currentConversationId = NoId
    /\ messages # <<>>

\* ------------------------------------------------------ C6
\* C6 (as stated): when a delete of c succeeds, then if c is the active
\* conversation the active id becomes unset and the in-memory list empty, and
\* otherwise the active id and the in-memory list stay as they are.
C6_DeleteEffect ==
    [][(lastOp'.op = "deleteResolved" /\ lastOp'.ok)
          => IF currentConversationId = lastOp'.arg
             THEN currentConversationId' = NoId /\ messages' = <<>>
             ELSE UNCHANGED <<currentConversationId, messages>>]_vars

\* ------------------------------------------------------ C7
\* C7 (as stated): selecting c makes c the active conversation, and when the
\* reload of c completes while c is active, whether it succeeded or failed, the
\* in-memory list is the stored messages of c in ascending creation order.
C7_ReloadShowsSelected ==
    [][/\ lastOp'.op = "handleSelectConversation"
            => currentConversationId' = lastOp'.arg
       /\ (lastOp'.op = "fetchMessages" /\ currentConversationId' = lastOp'.arg)
            => messages' = SelectMessages(Me, lastOp'.arg)]_vars

\* ------------------------------------------------------ C8
\* C8: New sets the active conversation id to none and the in-memory list to
\* empty and leaves every stored conversation, message and measurement as it is.
C8_StartNew ==
    [][lastOp'.op = "handleNewConversation"
          => /\ currentConversationId' = NoId
             /\ messages' = <<>>
             /\ UNCHANGED <<dbConversations, dbMessages, dbPerformance>>]_vars

C8_Witness ==
    /\ lastOp.op = "handleNewConversation"
    /\ \E t \in 1..Len(tasks) :
          /\ tasks[t].outcome = "recorded"
          /\ tasks[t].userMessage \in dbMessages
    /\ currentConversationId = NoId
    /\ messages = <<>>

C10_MissingParameterRejected ==
    (/\ gw.phase \in {"responded", "done"}
     /\ gw.req.method # "OPTIONS"
     /\ Absent \in {gw.req.audio, gw.req.model, gw.req.language})
        => /\ gw.resp.status = 500
           /\ ~gw.resp.success
           /\ gw.resp.error # ""
           /\ gw.resp.called = "none"

C10_Witness ==
    /\ gw.phase = "responded"
    /\ gw.req.method = "POST" /\ gw.req.multipart
    /\ gw.req.audio = "file" /\ gw.req.model = "moshi" /\ gw.req.language = Absent
    /\ gw.resp.status = 500
    /\ gw.resp.error = "Missing required parameters: audio, model, or language"

\* ------------------------------------------------------ C11
\* the submits awaiting the response of the function
SubmitsOutstanding == {t \in 1..Len(tasks) : tasks[t].pc = "submitting"}

\* C11 (as stated): at most one submit is outstanding at any time, and while one
\* is, no recording starts and no recording is stopped into a submit.
C11_OneSubmit ==
    [][/\ Cardinality(SubmitsOutstanding)' <= 1
       /\ ((lastOp'.op = "getUserMedia" /\ lastOp'.ok) \/ lastOp'.op = "processAudio")
             => SubmitsOutstanding = {}]_vars

\* ------------------------------------------------------ C12
\* the input streams obtained and not yet released
StreamsHeld == {t \in 1..Len(tasks) : tasks[t].stream = "held"}

\* C12 (as stated): at no time are two input streams held, and the recorder
\* reference is not overwritten while the stream of the recorder it refers to is
\* still held.
C12_OneStream ==
    [][/\ Cardinality(StreamsHeld)' <= 1
       /\ (mediaRecorderRef' # mediaRecorderRef /\ mediaRecorderRef # 0)
             => tasks[mediaRecorderRef].stream # "held"]_vars

\* ------------------------------------------------------ C13
\* the exchanges between the start of handleTranscriptionReceived and its end
ExchangesPersisting ==
    {t \in 1..Len(tasks) : tasks[t].pc \in {"createConv", "userInsert", "aiInsert", "perfInsert"}}

\* C13 (as stated): the persistence steps of one exchange are over before those
\* of another begin: at most one exchange is being persisted at any time, and no
\* two exchanges that overlapped have each created a conversation.
C13_ExchangesSerial ==
    /\ Cardinality(ExchangesPersisting) <= 1
    /\ \A t \in 1..Len(tasks), u \in 1..Len(tasks) :
          (t # u /\ tasks[t].created /\ tasks[u].created)
             => (tasks[t].pc = "done" \/ tasks[u].pc = "done")

\* ------------------------------------------------------ C14
\* C14: when the submit fails, on the transport or by an error response, the
\* transcription callback is not called for it: no conversation, message or
\* measurement is stored, the active conversation id and the in-memory list stay
\* as they are, the user gets the Processing Error notification, and the attempt
\* is over for good.
C14_FailedSubmit ==
    [][/\ (lastOp'.op = "invoke" /\ ~lastOp'.ok)
            => LET t == lastOp'.arg
               IN /\ UNCHANGED <<dbConversations, dbMessages, dbPerformance,
                                 currentConversationId, messages>>
                  /\ tasks'[t].pc = "done"
                  /\ tasks'[t].convId = NoId /\ ~tasks'[t].created
                  /\ tasks'[t].userMessage = NoRow /\ tasks'[t].aiMessage = NoRow
                  /\ ~tasks'[t].perfOk
                  /\ "Processing Error" \in tasks'[t].toasts
                  /\ "Processing Complete" \notin tasks'[t].toasts
       /\ \A t \in 1..Len(tasks) : tasks[t].pc = "done" => tasks'[t] = tasks[t]]_vars

C14_Witness ==
    /\ lastOp.op = "invoke" /\ ~lastOp.ok
    /\ tasks[lastOp.arg].outcome = "submitFailed"
    /\ \E u \in 1..Len(tasks) : tasks[u].outcome = "recorded"
    /\ currentConversationId # NoId
    /\ messages # <<>>

\* ------------------------------------------------------ C15
\* the records of one model, in order
RecordsOf(data, model) == SelectSeq(data, LAMBDA r : r.model_name = model)

RECURSIVE SumOver(_, _)
SumOver(values, n) == IF n = 0 THEN 0 ELSE values[n] + SumOver(values, n - 1)

\* the arithmetic mean as a fraction in lowest terms
MeanOf(values) == Frac(SumOver(values, Len(values)), Len(values))

ModelsIn(data) == {data[i].model_name : i \in 1..Len(data)}

\* what the statistics of data have to be, whatever the order of the entries
ExpectedStats(data) ==
    {[model_name |-> m,
      avg_latency |-> MeanOf([i \in 1..Len(RecordsOf(data, m)) |->
                                 RecordsOf(data, m)[i].latency_ms]),
      avg_quality |-> MeanOf([i \in 1..Len(RecordsOf(data, m)) |->
                                 RecordsOf(data, m)[i].quality_score]),
      avg_expressivity |-> MeanOf([i \in 1..Len(RecordsOf(data, m)) |->
                                      RecordsOf(data, m)[i].expressivity_score]),
      usage_count |-> Len(RecordsOf(data, m))] : m \in ModelsIn(data)}

Range(s) == {s[i] : i \in 1..Len(s)}

Orderings(n) == {f \in [1..n -> 1..n] : \A i, j \in 1..n : f[i] = f[j] => i = j}

\* C15: the statistics computed from the owner's records have exactly one entry
\* per model that occurs in them, with usage_count the number of its records and
\* each average the arithmetic mean of its values, and the records taken in any
\* other order give the same entries.
C15_StatsAreMeans ==
    (lastOp.op = "fetchModelStats" /\ lastOp.ok)
        => LET data == SelectPerformance(Me)
           IN /\ Len(modelStats) = Cardinality(ModelsIn(data))
              /\ Range(modelStats) = ExpectedStats(data)
              /\ \A f \in Orderings(Len(data)) :
                    Range(ComputeStats([i \in 1..Len(data) |-> data[f[i]]]))
                       = Range(modelStats)

C15_Witness ==
    /\ lastOp.op = "fetchModelStats" /\ lastOp.ok
    /\ Len(dbPerformance) = 3
    /\ Len(modelStats) = 2
    /\ \E i \in 1..Len(modelStats) :
          /\ modelStats[i].usage_count = 2
          /\ modelStats[i].avg_latency = <<3, 2>>
          /\ modelStats[i].avg_quality = <<3, 1>>
          /\ modelStats[i].avg_expressivity = <<3, 1>>

\* ------------------------------------------------------ C16
\* the exchanges whose message pair was added to the in-memory list
ExchangesRecorded == {t \in 1..Len(tasks) : tasks[t].outcome = "recorded"}

\* C16 (as stated): the owner has as many stored measurements as exchanges whose
\* message pair was recorded, also when the insert of the measurement failed.
C16_OneRecordPerExchange ==
    Len(SelectPerformance(Me)) = Cardinality(ExchangesRecorded)

\* ------------------------------------------------------ C17
\* a stored conversation of another account
ForeignConversation(c) == \E r \in dbConversations : r.id = c /\ r.user_id # Me

\* C17 (as stated): a delete of a conversation of another account ends on the
\* failure path of the caller, and leaves the stored rows, the listed
\* conversations, the active id and the in-memory list as they are.
C17_ForeignDeleteFails ==
    [][(lastOp'.op = "deleteResolved" /\ ForeignConversation(lastOp'.arg))
          => /\ ~lastOp'.ok
             /\ UNCHANGED <<dbConversations, dbMessages, conversations,
                            currentConversationId, messages>>]_vars

\* ------------------------------------------------------ C18
\* the step just taken was a failure: of the device, the submit, a write or the
\* statistics query
FailureJustHappened ==
    \/ /\ lastOp.op \in {"getUserMedia", "invoke", "createNewConversation",
                         "insertUserMessage", "insertAiMessage", "fetchModelStats"}
       /\ ~lastOp.ok
    \/ /\ lastOp.op = "recordExchange"
       /\ ~tasks[lastOp.arg].perfOk

\* the button reads Record and is enabled
RecordEnabled == ~isRecording /\ ~isProcessing

\* C18: after any failure the recorder gets back to neither recording nor
\* processing, with Record enabled, provided every outstanding request is
\* answered and a recording in progress is stopped.
C18_UsableAfterFailure == FailureJustHappened ~> RecordEnabled

\* a failed submit, and after it an exchange recorded in full
C18_Witness ==
    /\ Len(tasks) = 2
    /\ tasks[1].outcome = "submitFailed"
    /\ tasks[2].outcome = "recorded" /\ tasks[2].perfOk
    /\ lastOp.op = "recordExchange" /\ lastOp.arg = 2
    /\ RecordEnabled

\* ------------------------------------------------------ C19
\* C19 (as stated): every stream obtained by a start is released in the end,
\* whether the submit after its stop succeeds or fails, provided every request is
\* answered and a recording in progress is stopped.
C19_StreamsReleased ==
    \A t \in 1..MaxRecordings :
        (Len(tasks) >= t /\ tasks[t].stream = "held")
            ~> (Len(tasks) >= t /\ tasks[t].stream = "released")

\* ------------------------------------------------------ C20
\* the stored row of a listed conversation
StoredRow(c) == CHOOSE r \in dbConversations : r.id = c

\* C20: the list the history panel loads is exactly the owner's stored
\* conversations, each once, newest first, and at no time does the list hold a
\* conversation that is stored for another account, whatever that account
\* creates or deletes.
C20_ListIsOwn ==
    [][/\ (lastOp'.op = "fetchConversations" /\ lastOp'.ok)
            => /\ {conversations'[i] : i \in 1..Len(conversations')}
                     = {r.id : r \in {q \in dbConversations : q.user_id = Me}}
               /\ \A i, j \in 1..Len(conversations') :
                     /\ (i # j => conversations'[i] # conversations'[j])
                     /\ (i < j => StoredRow(conversations'[i]).created_at
                                     >= StoredRow(conversations'[j]).created_at)
       /\ \A i \in 1..Len(conversations') :
             \A r \in dbConversations' : r.id = conversations'[i] => r.user_id = Me]_vars

C20_Witness ==
    /\ lastOp.op = "fetchConversations" /\ lastOp.ok
    /\ Len(conversations) = InitConversations + 1
    /\ Cardinality({r \in dbConversations : r.user_id = Other}) = MaxForeign
    /\ \E r \in dbConversations :
          /\ r.user_id = Other
          /\ r.created_at > StoredRow(conversations[1]).created_at

\* ------------------------------------------------------ C21
\* no query, insert, delete or submit of the page is awaiting its response
NothingInFlight ==
    /\ msgFetches = {}
    /\ ~listFetch
    /\ statsFetches = 0
    /\ deletes = {}
    /\ ExchangesPersisting = {}
    /\ SubmitsOutstanding = {}

\* C21 (as stated): whenever nothing is in flight, every message of the in-memory
\* list belongs to the active conversation, and the list is empty when no
\* conversation is active.
C21_ListOfActive ==
    NothingInFlight
        => /\ \A i \in 1..Len(messages) : messages[i].conversation_id = currentConversationId
           /\ (currentConversationId = NoId => messages = <<>>)

\* ------------------------------------------------------ C22
\* C22 (as stated): whenever no delete is in flight, the active conversation id is
\* unset or is the id of a stored conversation.
C22_ActiveExists ==
    deletes = {}
        => \/ currentConversationId = NoId
           \/ \E r \in dbConversations : r.id = currentConversationId

====
